---- MODULE Spec2Model ----
(***************************************************************************)
(* A model of the terminal progress display of python_progress_bar:        *)
(* MockDownload (a time-driven progress item) and ProgressBarManager.run   *)
(* (the redraw loop) of src/progress.py, with the older duplicates of      *)
(* src/main.py where they differ.                                          *)
(*                                                                         *)
(* Time is counted in ticks of one frame pause (1/30 s), so that the       *)
(* refresh interval of 1.5 s is 45 ticks.  monotonic() is the variable     *)
(* clock; it never decreases, advances by the frame pause in sleep() and   *)
(* may advance by further ticks between any two steps (Tick).              *)
(*                                                                         *)
(* A progress value (a Python float in the code) is an exact fraction      *)
(* <<numerator, denominator>> with a positive denominator.  IEEE division  *)
(* is correctly rounded, so x / d >= 1.0 exactly when x >= d, which is all *)
(* the code's comparisons against 1.0 depend on.                           *)
(***************************************************************************)
EXTENDS Integers, Sequences, FiniteSets, TLC

VARIABLES
    dur,            \* item -> expected_download_duration, in ticks
    text_io,        \* the stream passed to run: "stdout" or "sink"
    variant,        \* "progress" (src/progress.py) or "main" (src/main.py)
    clock,          \* the value monotonic() returns now
    drift,          \* ticks of clock advance outside sleep() so far
    start_time,     \* item -> start_time; an unstarted item has no entry
    is_finished,    \* item -> the latched flag
    pc,             \* position of run
    idx,            \* index of the loop the position is in
    acc,            \* items collected so far by the running filter()
    incomplete,     \* incomplete_progress_items
    update_time,    \* incomplete_progress_items_update_time
    keys,           \* sort keys queried so far in this frame
    order,          \* the frame's sorted tuple
    rendered,       \* this frame's item lines so far: [item, progress]
    spinner,        \* position of PROGRESS_SPINNER_SEQUENCE
    streams,        \* the streams written to so far
    lastLine,       \* kind of the last line written
    nCompleted,     \* number of Completed markers written
    header,         \* the last header line rendered, <<>> before any
    call,           \* the last query made on an item, apart from run
    seenCompleted,  \* items whose is_completed() has returned true
    lastProgress,   \* item -> the value its last progress query returned
    hdrIn,          \* a header's inputs apart from run: <<completed, total>>
    screen,         \* stream -> what the stream shows: rows, cursor row
    emitted,        \* the writes of the last step of run that wrote
    nHide,          \* number of ANSI_HIDE_CURSOR written
    nShow,          \* number of ANSI_SHOW_CURSOR written
    startLog,       \* the items start_progress was called on, in call order
    queried         \* whether run has queried any item yet

vars == <<dur, text_io, variant, clock, drift, start_time, is_finished, pc,
          idx, acc, incomplete, update_time, keys, order, rendered, spinner,
          streams, lastLine, nCompleted, header, call, seenCompleted,
          lastProgress, hdrIn, screen, emitted, nHide, nShow, startLog,
          queried>>

(***************************************************************************)
(* Bounds of the model.                                                    *)
(***************************************************************************)
MaxItems == 2
ShortDur == 1
MidDur == 2
LongDur == 46
MaxDrift == 2
MaxFairItems == 1
MaxItemDur == 3
MaxItemClock == 5
MaxTotal == 12

DurChoices == {ShortDur, MidDur, LongDur}

(***************************************************************************)
(* Program constants, in ticks of 1/30 s.                                  *)
(***************************************************************************)
COMPLETED_JOBS_REFRESH_TIME == 45
MAX_NUMBER_CHARACTERS_HEADER_PROGRESS_BAR == 30
SpinnerLength == 4

FramesPerCycleTruncated == 1 \div 30
FRAMES_PER_CYCLE == 1

(***************************************************************************)
(* Fractions.                                                              *)
(***************************************************************************)
One == <<1, 1>>
Zero == <<0, 1>>
Leq(p, q) == p[1] * q[2] <= q[1] * p[2]
Min1(p) == IF p[1] >= p[2] THEN One ELSE p

Items == 1..Len(dur)
progress_items == [i \in 1..Len(dur) |-> i]

(***************************************************************************)
(* MockDownload, src/progress.py.                                          *)
(***************************************************************************)
Elapsed(i) == clock - start_time[i]

NormalizedProgressReversed(i) ==
    IF is_finished[i] THEN One ELSE Min1(<<start_time[i] - clock, dur[i]>>)
NormalizedProgressUnclamped(i) ==
    IF is_finished[i] THEN One ELSE <<Elapsed(i), dur[i]>>
\* the value get_normalized_progress returns
get_normalized_progress(i) ==
    IF is_finished[i] THEN One ELSE Min1(<<Elapsed(i), dur[i]>>)

\* is_finished after get_normalized_progress has run on item i
Latched(i) ==
    [is_finished EXCEPT ![i] = is_finished[i] \/ Elapsed(i) >= dur[i]]

is_completed(i) == is_finished[i] \/ Elapsed(i) > dur[i]

is_not_completed(i) == ~is_completed(i)

(***************************************************************************)
(* MockDownload, src/main.py: completed() is the latch alone.              *)
(***************************************************************************)
current_progress(i) ==
    IF is_finished[i] THEN One ELSE Min1(<<Elapsed(i), dur[i]>>)

completed(i) == is_finished[i]

(***************************************************************************)
(* The header line.  A line is modelled by its parts: the characters       *)
(* between the square brackets and the two counts printed after them.      *)
(* Python's  s * n  is the empty string for n <= 0.                        *)
(***************************************************************************)
Rep(c, n) == [k \in 1..n |-> c]

\* math.ceil(a / b * 30) for integers a >= 0, b > 0 (exact on every pair
\* with b <= 200, where the float result was compared with the integer one)
CeilScaled(a, b, n) == (a * n + b - 1) \div b
FloorScaled(a, b, n) == (a * n) \div b

Max0(n) == IF n < 0 THEN 0 ELSE n

HeaderLine(n_filled, n_left, shown, total) ==
    [ n_filled |-> n_filled,
      n_left   |-> n_left,
      bar      |-> Rep("=", n_filled - 1) \o <<">">> \o Rep(" ", n_left),
      counts   |-> <<shown, total>> ]

HeaderFloor(n_jobs_completed, n_jobs_total) ==
    LET n_filled == FloorScaled(n_jobs_completed, n_jobs_total,
                                MAX_NUMBER_CHARACTERS_HEADER_PROGRESS_BAR)
        n_left == MAX_NUMBER_CHARACTERS_HEADER_PROGRESS_BAR - n_filled
    IN  HeaderLine(n_filled, n_left, n_jobs_completed, n_jobs_total)
\* src/progress.py; n_jobs_total is not 0 (the division raises there)
pretty_print_progress_bar_header(n_jobs_completed, n_jobs_total) ==
    LET n_filled == CeilScaled(n_jobs_completed, n_jobs_total,
                               MAX_NUMBER_CHARACTERS_HEADER_PROGRESS_BAR)
        n_left == MAX_NUMBER_CHARACTERS_HEADER_PROGRESS_BAR - n_filled
    IN  HeaderLine(n_filled, n_left, n_jobs_completed, n_jobs_total)

\* src/main.py; its argument is the tuple of items still in progress, of
\* which only the length is used
print_header_progress_bar(len_completed, all_items) ==
    LET uncompleted == all_items - len_completed
        n_chars == MAX_NUMBER_CHARACTERS_HEADER_PROGRESS_BAR
        n_filled == Max0(CeilScaled(uncompleted, all_items, n_chars))
        n_left == n_chars - n_filled
    IN  HeaderLine(n_filled, n_left, uncompleted, all_items)

(***************************************************************************)
(* sorted(progress_items, key=..., reverse=True): the keys are queried     *)
(* once per item, in order, and the sort is stable, so items with equal    *)
(* keys keep their order.                                                  *)
(***************************************************************************)
RECURSIVE InsertDescending(_, _)
InsertDescending(s, e) ==
    IF s = <<>> THEN <<e>>
    ELSE IF Leq(e.key, Head(s).key)
         THEN <<Head(s)>> \o InsertDescending(Tail(s), e)
         ELSE <<e>> \o s

RECURSIVE SortPairs(_, _)
SortPairs(done, todo) ==
    IF todo = <<>> THEN done
    ELSE SortPairs(InsertDescending(done, Head(todo)), Tail(todo))

SortedUnfinished(items, ks) ==
    LET pairs == [k \in 1..Len(items) |-> [item |-> items[k], key |-> ks[k]]]
        all == SortPairs(<<>>, pairs)
        unfinished == SelectSeq(all, LAMBDA e : e.key # One)
        s == IF unfinished = <<>> THEN all ELSE unfinished
    IN  [k \in 1..Len(s) |-> s[k].item]

\* sorted(progress_items, key=..., reverse=True)
sorted_reverse(items, ks) ==
    LET pairs == [k \in 1..Len(items) |-> [item |-> items[k], key |-> ks[k]]]
        s == SortPairs(<<>>, pairs)
    IN  [k \in 1..Len(s) |-> s[k].item]

(***************************************************************************)
(* The percentage of an item line: f"{x:04.2f}" for x = progress * 100.    *)
(* A text is the sequence of its characters.  The format rounds x to two   *)
(* decimals (a tie goes to the even neighbour), writes the integer digits, *)
(* a point and the two decimals, and pads with "0" on the left up to a     *)
(* total width of 4 characters.                                            *)
(***************************************************************************)
get_percentage_progress(p) == <<p[1] * 100, p[2]>>

Digit(d) == <<"0", "1", "2", "3", "4", "5", "6", "7", "8", "9">>[d + 1]

RECURSIVE Digits(_)
Digits(n) ==
    IF n < 10 THEN <<Digit(n)>>
    ELSE Append(Digits(n \div 10), Digit(n % 10))

\* x in hundredths, rounded
Hundredths(x) ==
    LET q == (x[1] * 100) \div x[2]
        r == (x[1] * 100) % x[2]
    IN  IF 2 * r < x[2] THEN q
        ELSE IF 2 * r > x[2] THEN q + 1
        ELSE IF q % 2 = 0 THEN q ELSE q + 1

Fixed2(x) ==
    LET h == Hundredths(x)
    IN  Digits(h \div 100) \o <<".">>
            \o <<Digit((h % 100) \div 10), Digit(h % 10)>>

FormatWidth == 4

\* f"{x:04.2f}"
Format04_2f(x) == Rep("0", FormatWidth - Len(Fixed2(x))) \o Fixed2(x)

\* the line of an item: the Done line, or the percentage of progress p
DoneLine(i) == [item |-> i, progress |-> One, done |-> TRUE,
                text |-> <<"Done!">>]
PercentLine(i, p) ==
    [item |-> i, progress |-> p, done |-> FALSE,
     text |-> Format04_2f(get_percentage_progress(p)) \o <<" ", "%">>]

(***************************************************************************)
(* What a stream shows.  A write is an escape sequence, a line (text and   *)
(* "\n") or text without a line end.  A stream shows rows of text and has  *)
(* a cursor row; rows never written are blank.  The column is left out:    *)
(* every line ends the row, the erase clears the whole row and the cursor  *)
(* moves up in its column, so run writes every line from column 0.  The    *)
(* cursor does not move above the first row.                               *)
(***************************************************************************)
Write(to, seq, what) == [to |-> to, seq |-> seq, what |-> what]

ANSI_ERASE_CURRENT_LINE(to) == Write(to, "erase", "")
ANSI_MOVE_CURSOR_UP_ONE_LINE(to) == Write(to, "up", "")
ANSI_HIDE_CURSOR(to) == Write(to, "hide", "")
ANSI_SHOW_CURSOR(to) == Write(to, "show", "")
Line(to, what) == Write(to, "line", what)
Text(to, what) == Write(to, "text", what)

\* delete_ascii_terminal_line(text_io)
delete_ascii_terminal_line(to) ==
    <<ANSI_ERASE_CURRENT_LINE(to), ANSI_MOVE_CURSOR_UP_ONE_LINE(to)>>

BlankScreen == [rows |-> <<>>, cur |-> 1, hidden |-> FALSE]

RowAt(t, r) == IF r \in 1..Len(t.rows) THEN t.rows[r] ELSE "blank"

Put(t, what) ==
    LET n == IF t.cur > Len(t.rows) THEN t.cur ELSE Len(t.rows)
    IN  [k \in 1..n |-> IF k = t.cur THEN what ELSE RowAt(t, k)]

Receive(t, w) ==
    CASE w.seq = "erase" ->
           IF t.cur <= Len(t.rows) THEN [t EXCEPT !.rows = Put(t, "blank")]
           ELSE t
      [] w.seq = "up" -> [t EXCEPT !.cur = IF t.cur > 1 THEN t.cur - 1 ELSE 1]
      [] w.seq = "hide" -> [t EXCEPT !.hidden = TRUE]
      [] w.seq = "show" -> [t EXCEPT !.hidden = FALSE]
      [] w.seq = "line" -> [t EXCEPT !.rows = Put(t, w.what),
                                     !.cur = t.cur + 1]
      [] w.seq = "text" -> [t EXCEPT !.rows = Put(t, w.what)]

RECURSIVE ReceiveAll(_, _)
ReceiveAll(scr, ws) ==
    IF ws = <<>> THEN scr
    ELSE ReceiveAll([scr EXCEPT ![Head(ws).to] = Receive(@, Head(ws))],
                    Tail(ws))

RECURSIVE Repeated(_, _)
Repeated(ws, n) == IF n <= 0 THEN <<>> ELSE ws \o Repeated(ws, n - 1)

Streams == {"stdout", "sink"}

(***************************************************************************)
(* ProgressBarManager.run, src/progress.py.  The positions of run are the  *)
(* places between two reads of the clock:                                  *)
(*   initialize   initialize_all_progress_items, one item per step         *)
(*   filter0      the first get_incomplete_progress_items_state            *)
(*   outer        the test of  while incomplete_progress_items             *)
(*   header       the header's count of completed items, one per step      *)
(*   inner        the test of the frame loop                               *)
(*   sortkeys     the sort's key queries, one item per step                *)
(*   render       pretty_print_progress, up to its is_completed()          *)
(*   percent      pretty_print_progress, its get_percentage_progress()     *)
(*   sleep, erase the frame pause and the erasure of the frame             *)
(*   filter       get_incomplete_progress_items_state at the cycle's end   *)
(*   final_header, final, final_erased   the statements after the loop     *)
(*   done         run has returned;  raised  run has raised                *)
(***************************************************************************)
RunPositions ==
    {"initialize", "filter0", "outer", "header", "inner", "sortkeys",
     "render", "percent", "sleep", "erase", "filter", "final_header",
     "final", "final_erased"}

NoCall == [op |-> "none", item |-> 0, val |-> Zero, done |-> FALSE]

HarnessIdle ==
    /\ call = NoCall
    /\ seenCompleted = {}
    /\ lastProgress = <<>>
    /\ hdrIn = <<0, 0>>

Init ==
    /\ dur \in UNION {[1..n -> DurChoices] : n \in 0..MaxItems}
    /\ text_io \in {"stdout", "sink"}
    /\ variant = "progress"
    /\ clock = 0
    /\ drift = 0
    /\ start_time = <<>>
    /\ is_finished = [i \in 1..Len(dur) |-> FALSE]
    /\ pc = IF Len(dur) = 0 THEN "filter0" ELSE "initialize"
    /\ idx = 1
    /\ acc = <<>>
    /\ incomplete = <<>>
    /\ update_time = 0
    /\ keys = <<>>
    /\ order = <<>>
    /\ rendered = <<>>
    /\ spinner = 0
    /\ streams = {}
    /\ lastLine = "none"
    /\ nCompleted = 0
    /\ header = <<>>
    /\ screen = [s \in Streams |-> BlankScreen]
    /\ emitted = <<>>
    /\ nHide = 0
    /\ nShow = 0
    /\ startLog = <<>>
    /\ queried = FALSE
    /\ HarnessIdle

harnessVars == <<call, seenCompleted, lastProgress, hdrIn>>
inputVars == <<dur, text_io, variant>>
frameVars == <<keys, order, rendered, spinner>>
outVars == <<streams, lastLine, nCompleted, header>>
termVars == <<screen, emitted>>
cursorVars == <<nHide, nShow>>
logVars == <<startLog, queried>>

\* the writes ws reach their streams
Emit(ws) ==
    /\ emitted' = ws
    /\ screen' = ReceiveAll(screen, ws)

\* the step is_completed() or get_normalized_progress() is called in
Query ==
    /\ queried' = TRUE
    /\ UNCHANGED startLog

\* for progress_item in self.progress_items: the k-th item
NextToStartReversed(k) == progress_items[Len(dur) + 1 - k]
NextToStart(k) == progress_items[k]

\* monotonic() moves on between two steps of run
Tick ==
    /\ pc \in RunPositions
    /\ drift < MaxDrift
    /\ clock' = clock + 1
    /\ drift' = drift + 1
    /\ UNCHANGED <<termVars, cursorVars, logVars>>
    /\ UNCHANGED <<inputVars, start_time, is_finished, pc, idx, acc,
                   incomplete, update_time, frameVars, outVars, harnessVars>>

\* MockDownload.start_progress on the next item of progress_items
StartProgress ==
    /\ pc = "initialize"
    /\ idx <= Len(dur)
    /\ start_time' = start_time @@ (NextToStart(idx) :> clock)
    /\ startLog' = Append(startLog, NextToStart(idx))
    /\ idx' = IF idx = Len(dur) THEN 1 ELSE idx + 1
    /\ pc' = IF idx = Len(dur) THEN "filter0" ELSE "initialize"
    /\ UNCHANGED <<termVars, cursorVars, queried>>
    /\ UNCHANGED <<inputVars, clock, drift, is_finished, acc, incomplete,
                   update_time, frameVars, outVars, harnessVars>>

KeepCompleted(i) == is_completed(i)
\* the predicate of the filter in get_incomplete_progress_items_state
KeepIncomplete(i) == is_not_completed(i)

\* filter(lambda p: p.is_not_completed(), self.progress_items), one item
FilterStep ==
    /\ pc \in {"filter0", "filter"}
    /\ idx <= Len(dur)
    /\ acc' = IF KeepIncomplete(progress_items[idx])
              THEN Append(acc, progress_items[idx]) ELSE acc
    /\ idx' = idx + 1
    /\ Query
    /\ UNCHANGED <<termVars, cursorVars>>
    /\ UNCHANGED <<inputVars, clock, drift, start_time, is_finished, pc,
                   incomplete, update_time, frameVars, outVars, harnessVars>>

\* get_incomplete_progress_items_state returns (the tuple, monotonic());
\* at the end of a cycle run then calls delete_ascii_terminal_line(), whose
\* text_io is its default, sys.stdout
FilterReturn ==
    /\ pc \in {"filter0", "filter"}
    /\ idx > Len(dur)
    /\ incomplete' = acc
    /\ update_time' = clock
    /\ streams' = IF pc = "filter" THEN streams \cup {"stdout"} ELSE streams
    /\ pc' = "outer"
    /\ idx' = 1
    /\ acc' = <<>>
    /\ IF pc = "filter" THEN Emit(delete_ascii_terminal_line("stdout"))
       ELSE UNCHANGED termVars
    /\ UNCHANGED <<cursorVars, logVars>>
    /\ UNCHANGED <<inputVars, clock, drift, start_time, is_finished,
                   frameVars, lastLine, nCompleted, header, harnessVars>>

\* while incomplete_progress_items: text_io.write(ANSI_HIDE_CURSOR)
EnterCycle ==
    /\ pc = "outer"
    /\ incomplete # <<>>
    /\ streams' = streams \cup {text_io}
    /\ pc' = "header"
    /\ Emit(<<ANSI_HIDE_CURSOR(text_io)>>)
    /\ nHide' = nHide + 1
    /\ UNCHANGED <<nShow, logVars>>
    /\ UNCHANGED <<inputVars, clock, drift, start_time, is_finished, idx, acc,
                   incomplete, update_time, frameVars, lastLine, nCompleted,
                   header, harnessVars>>

LeaveLoopRedraws ==
    /\ pc = "outer"
    /\ incomplete = <<>>
    /\ pc' = "header"
    /\ UNCHANGED <<termVars, cursorVars, logVars>>
    /\ UNCHANGED <<inputVars, clock, drift, start_time, is_finished, idx, acc,
                   incomplete, update_time, frameVars, outVars, harnessVars>>

\* while incomplete_progress_items: the loop is left on an empty subset
LeaveLoop ==
    /\ pc = "outer"
    /\ incomplete = <<>>
    /\ pc' = "final_header"
    /\ UNCHANGED <<termVars, cursorVars, logVars>>
    /\ UNCHANGED <<inputVars, clock, drift, start_time, is_finished, idx, acc,
                   incomplete, update_time, frameVars, outVars, harnessVars>>

CountsAsNotCompleted(i) == is_not_completed(i)
\* lambda p: p.is_completed(), the filter of the header's count
CountsAsCompleted(i) == is_completed(i)

\* filter(lambda p: p.is_completed(), self.progress_items), one item
HeaderStep ==
    /\ pc \in {"header", "final_header"}
    /\ idx <= Len(dur)
    /\ acc' = IF CountsAsCompleted(progress_items[idx])
              THEN Append(acc, progress_items[idx]) ELSE acc
    /\ idx' = idx + 1
    /\ Query
    /\ UNCHANGED <<termVars, cursorVars>>
    /\ UNCHANGED <<inputVars, clock, drift, start_time, is_finished, pc,
                   incomplete, update_time, frameVars, outVars, harnessVars>>

\* the header line is written to text_io
HeaderWrite ==
    /\ pc \in {"header", "final_header"}
    /\ idx > Len(dur)
    /\ Len(dur) # 0
    /\ header' = pretty_print_progress_bar_header(Len(acc), Len(dur))
    /\ streams' = streams \cup {text_io}
    /\ lastLine' = "header"
    /\ pc' = IF pc = "header" THEN "inner" ELSE "final"
    /\ idx' = 1
    /\ acc' = <<>>
    /\ Emit(<<Line(text_io, "header")>>)
    /\ UNCHANGED <<cursorVars, logVars>>
    /\ UNCHANGED <<inputVars, clock, drift, start_time, is_finished,
                   incomplete, update_time, frameVars, nCompleted,
                   harnessVars>>

\* n_jobs_completed / n_jobs_total with n_jobs_total = 0: ZeroDivisionError
HeaderRaise ==
    /\ pc \in {"header", "final_header"}
    /\ idx > Len(dur)
    /\ Len(dur) = 0
    /\ pc' = "raised"
    /\ UNCHANGED <<termVars, cursorVars, logVars>>
    /\ UNCHANGED <<inputVars, clock, drift, start_time, is_finished, idx, acc,
                   incomplete, update_time, frameVars, outVars, harnessVars>>

IntervalRunning == clock - update_time < COMPLETED_JOBS_REFRESH_TIME

\* while monotonic() - update_time < COMPLETED_JOBS_REFRESH_TIME: a frame
FrameBegin ==
    /\ pc = "inner"
    /\ IntervalRunning
    /\ pc' = "sortkeys"
    /\ idx' = 1
    /\ keys' = <<>>
    /\ rendered' = <<>>
    /\ UNCHANGED <<termVars, cursorVars, logVars>>
    /\ UNCHANGED <<inputVars, clock, drift, start_time, is_finished, acc,
                   incomplete, update_time, order, spinner, outVars,
                   harnessVars>>

CycleEnd ==
    /\ pc = "inner"
    /\ ~IntervalRunning
    /\ pc' = "filter"
    /\ idx' = 1
    /\ acc' = <<>>
    /\ UNCHANGED <<termVars, cursorVars, logVars>>
    /\ UNCHANGED <<inputVars, clock, drift, start_time, is_finished,
                   incomplete, update_time, frameVars, outVars, harnessVars>>

\* key=lambda p: p.get_normalized_progress() on the next item; after the
\* last key the tuple is sorted
KeyStep ==
    /\ pc = "sortkeys"
    /\ idx <= Len(incomplete)
    /\ LET i == incomplete[idx]
           ks == Append(keys, get_normalized_progress(i))
       IN  /\ is_finished' = Latched(i)
           /\ keys' = ks
           /\ IF idx = Len(incomplete)
              THEN /\ order' = sorted_reverse(incomplete, ks)
                   /\ pc' = "render"
                   /\ idx' = 1
              ELSE /\ order' = order
                   /\ pc' = "sortkeys"
                   /\ idx' = idx + 1
    /\ Query
    /\ UNCHANGED <<termVars, cursorVars>>
    /\ UNCHANGED <<inputVars, clock, drift, start_time, acc, incomplete,
                   update_time, rendered, spinner, outVars, harnessVars>>

AfterLine == IF idx = Len(order) THEN "sleep" ELSE "render"

\* pretty_print_progress of the next item, called without text_io, so its
\* line goes to sys.stdout: next(spinner), is_completed(), the Done line
RenderDone ==
    /\ pc = "render"
    /\ is_completed(order[idx])
    /\ spinner' = (spinner + 1) % SpinnerLength
    /\ rendered' = Append(rendered, DoneLine(order[idx]))
    /\ streams' = streams \cup {"stdout"}
    /\ lastLine' = "item"
    /\ pc' = AfterLine
    /\ idx' = idx + 1
    /\ Query
    /\ Emit(<<Line("stdout", "item")>>)
    /\ UNCHANGED cursorVars
    /\ UNCHANGED <<inputVars, clock, drift, start_time, is_finished, acc,
                   incomplete, update_time, keys, order, nCompleted, header,
                   harnessVars>>

RenderQuery ==
    /\ pc = "render"
    /\ ~is_completed(order[idx])
    /\ spinner' = (spinner + 1) % SpinnerLength
    /\ pc' = "percent"
    /\ Query
    /\ UNCHANGED <<termVars, cursorVars>>
    /\ UNCHANGED <<inputVars, clock, drift, start_time, is_finished, idx, acc,
                   incomplete, update_time, keys, order, rendered, outVars,
                   harnessVars>>

\* get_percentage_progress() and the percentage line
RenderPercent ==
    /\ pc = "percent"
    /\ rendered' = Append(rendered,
                     PercentLine(order[idx],
                                 get_normalized_progress(order[idx])))
    /\ is_finished' = Latched(order[idx])
    /\ streams' = streams \cup {"stdout"}
    /\ lastLine' = "item"
    /\ pc' = AfterLine
    /\ idx' = idx + 1
    /\ Query
    /\ Emit(<<Line("stdout", "item")>>)
    /\ UNCHANGED cursorVars
    /\ UNCHANGED <<inputVars, clock, drift, start_time, acc, incomplete,
                   update_time, keys, order, spinner, nCompleted, header,
                   harnessVars>>

\* sleep(FRAMES_PER_CYCLE)
Sleep ==
    /\ pc = "sleep"
    /\ clock' = clock + FRAMES_PER_CYCLE
    /\ pc' = "erase"
    /\ UNCHANGED <<termVars, cursorVars, logVars>>
    /\ UNCHANGED <<inputVars, drift, start_time, is_finished, idx, acc,
                   incomplete, update_time, frameVars, outVars, harnessVars>>

\* delete_ascii_terminal_line() once per line, on sys.stdout, then
\* text_io.write(ANSI_ERASE_CURRENT_LINE)
Erase ==
    /\ pc = "erase"
    /\ streams' = streams \cup {"stdout", text_io}
    /\ pc' = "inner"
    /\ idx' = 1
    /\ Emit(Repeated(delete_ascii_terminal_line("stdout"), Len(order))
            \o <<ANSI_ERASE_CURRENT_LINE(text_io)>>)
    /\ UNCHANGED <<cursorVars, logVars>>
    /\ UNCHANGED <<inputVars, clock, drift, start_time, is_finished, acc,
                   incomplete, update_time, frameVars, lastLine, nCompleted,
                   header, harnessVars>>

\* delete_ascii_terminal_line() on sys.stdout, then
\* text_io.write(ANSI_ERASE_CURRENT_LINE)
FinishErase ==
    /\ pc = "final"
    /\ streams' = streams \cup {"stdout", text_io}
    /\ Emit(delete_ascii_terminal_line("stdout")
            \o <<ANSI_ERASE_CURRENT_LINE(text_io)>>)
    /\ pc' = "final_erased"
    /\ UNCHANGED <<inputVars, clock, drift, start_time, is_finished, idx, acc,
                   incomplete, update_time, frameVars, lastLine, nCompleted,
                   header, harnessVars, cursorVars, logVars>>

FinalWritesNoShow == <<Text(text_io, "Completed")>>
\* the Completed marker and ANSI_SHOW_CURSOR, on text_io
FinalWrites == <<Text(text_io, "Completed"), ANSI_SHOW_CURSOR(text_io)>>

CountOf(ws, seq) == Cardinality({k \in DOMAIN ws : ws[k].seq = seq})

\* the last two writes; run returns
Finish ==
    /\ pc = "final_erased"
    /\ streams' = streams \cup {text_io}
    /\ lastLine' = "Completed"
    /\ nCompleted' = nCompleted + 1
    /\ Emit(FinalWrites)
    /\ nShow' = nShow + CountOf(FinalWrites, "show")
    /\ pc' = "done"
    /\ UNCHANGED <<inputVars, clock, drift, start_time, is_finished, idx, acc,
                   incomplete, update_time, frameVars, header, harnessVars,
                   nHide, logVars>>

Step ==
    \/ StartProgress
    \/ FilterStep
    \/ FilterReturn
    \/ EnterCycle
    \/ LeaveLoop
    \/ HeaderStep
    \/ HeaderWrite
    \/ HeaderRaise
    \/ FrameBegin
    \/ CycleEnd
    \/ KeyStep
    \/ RenderDone
    \/ RenderQuery
    \/ RenderPercent
    \/ Sleep
    \/ Erase
    \/ FinishErase
    \/ Finish

Next == Step \/ Tick

Spec == Init /\ [][Next]_vars

\* run is one thread of control: it takes its next step whenever it has one.
\* The clock owes nothing beyond the frame pause: Tick has no fairness.
InitFair == Init /\ Len(dur) <= MaxFairItems

FairSpec == InitFair /\ [][Next]_vars /\ WF_vars(Step)

(***************************************************************************)
(* One MockDownload apart from run: it is started once and then queried    *)
(* in any order, at any instants of a clock that never goes back.  The     *)
(* item is the class of src/progress.py or the one of src/main.py.         *)
(***************************************************************************)
RunIdle ==
    /\ text_io = "stdout"
    /\ drift = 0
    /\ idx = 1
    /\ acc = <<>>
    /\ incomplete = <<>>
    /\ update_time = 0
    /\ keys = <<>>
    /\ order = <<>>
    /\ rendered = <<>>
    /\ spinner = 0
    /\ streams = {}
    /\ lastLine = "none"
    /\ nCompleted = 0
    /\ screen = [s \in Streams |-> BlankScreen]
    /\ emitted = <<>>
    /\ nHide = 0
    /\ nShow = 0
    /\ startLog = <<>>
    /\ queried = FALSE

runVars == <<text_io, drift, idx, acc, incomplete, update_time, frameVars,
             streams, lastLine, nCompleted, termVars, cursorVars, logVars>>

InitItem ==
    /\ dur \in [1..1 -> 1..MaxItemDur]
    /\ variant \in {"progress", "main"}
    /\ clock \in 0..1
    /\ start_time = <<>>
    /\ is_finished = [i \in 1..Len(dur) |-> FALSE]
    /\ pc = "item"
    /\ header = <<>>
    /\ RunIdle
    /\ HarnessIdle

ItemStart ==
    /\ pc = "item"
    /\ \E i \in Items \ DOMAIN start_time :
          start_time' = start_time @@ (i :> clock)
    /\ UNCHANGED <<inputVars, clock, is_finished, pc, header, runVars,
                   harnessVars>>

ItemTick ==
    /\ pc = "item"
    /\ clock < MaxItemClock
    /\ clock' = clock + 1
    /\ UNCHANGED <<inputVars, start_time, is_finished, pc, header, runVars,
                   harnessVars>>

ItemCompleted(i) ==
    IF variant = "main" THEN completed(i) ELSE is_completed(i)

ItemProgress(i) ==
    IF variant = "main" THEN current_progress(i)
    ELSE get_normalized_progress(i)

ItemIsCompleted ==
    /\ pc = "item"
    /\ \E i \in DOMAIN start_time :
          /\ call' = [op |-> "is_completed", item |-> i, val |-> Zero,
                      done |-> ItemCompleted(i)]
          /\ seenCompleted' = IF ItemCompleted(i)
                              THEN seenCompleted \cup {i} ELSE seenCompleted
    /\ UNCHANGED <<inputVars, clock, start_time, is_finished, pc, header,
                   runVars, lastProgress, hdrIn>>

ItemGetNormalizedProgress ==
    /\ pc = "item"
    /\ \E i \in DOMAIN start_time :
          /\ call' = [op |-> "get_normalized_progress", item |-> i,
                      val |-> ItemProgress(i), done |-> FALSE]
          /\ lastProgress' = [j \in DOMAIN lastProgress \cup {i} |->
                                IF j = i THEN ItemProgress(i)
                                ELSE lastProgress[j]]
          /\ is_finished' = Latched(i)
    /\ UNCHANGED <<inputVars, clock, start_time, pc, header, runVars,
                   seenCompleted, hdrIn>>

NextItem ==
    \/ ItemStart
    \/ ItemTick
    \/ ItemIsCompleted
    \/ ItemGetNormalizedProgress

SpecItem == InitItem /\ [][NextItem]_vars

(***************************************************************************)
(* One header line apart from run, for every pair of counts.               *)
(***************************************************************************)
InitHeader ==
    /\ hdrIn \in {<<c, t>> : c \in 0..MaxTotal, t \in 1..MaxTotal}
    /\ hdrIn[1] <= hdrIn[2]
    /\ variant \in {"progress", "main"}
    /\ dur = <<>>
    /\ clock = 0
    /\ start_time = <<>>
    /\ is_finished = <<>>
    /\ pc = "hdr"
    /\ header = <<>>
    /\ RunIdle
    /\ call = NoCall
    /\ seenCompleted = {}
    /\ lastProgress = <<>>

\* src/main.py passes the tuple of the items still in progress
RenderHeader ==
    /\ pc = "hdr"
    /\ header' = IF variant = "main"
                 THEN print_header_progress_bar(hdrIn[2] - hdrIn[1], hdrIn[2])
                 ELSE pretty_print_progress_bar_header(hdrIn[1], hdrIn[2])
    /\ pc' = "hdr_done"
    /\ UNCHANGED <<inputVars, clock, start_time, is_finished, runVars,
                   harnessVars>>

NextHeader == RenderHeader

SpecHeader == InitHeader /\ [][NextHeader]_vars

(***************************************************************************)
(* The claims.                                                             *)
(***************************************************************************)

\* C1: when run has written the Completed marker and returned, is_completed()
\* is true for every item of the manager's collection.
ReturnsOnlyWhenAllCompleted ==
    pc = "done" => \A i \in Items : is_completed(i)

ReturnedWithSlowItem ==
    /\ pc = "done"
    /\ Len(dur) >= 2
    /\ \E i \in Items : dur[i] = LongDur
    /\ \E j \in Items : ~is_finished[j]

\* C2: with at least one item, all durations positive and a clock that
\* advances by the frame pause in every frame, run eventually returns, and
\* from then on the Completed marker has been written exactly once and is
\* the last line written.
RunTerminates ==
    (Len(dur) >= 1) =>
        <>[](pc = "done" /\ nCompleted = 1 /\ lastLine = "Completed")

ReturnedAfterSecondCycle ==
    /\ pc = "done"
    /\ nCompleted = 1
    /\ lastLine = "Completed"
    /\ clock >= 2 * COMPLETED_JOBS_REFRESH_TIME

\* C3: once is_completed() has returned true for a started item (of a
\* positive duration, as every item the program builds), every later
\* is_completed() returns true and every later progress query returns
\* exactly 1.0.
CompletionSticky ==
    \A i \in seenCompleted :
        call.item = i =>
            /\ call.op = "is_completed" => call.done
            /\ call.op = "get_normalized_progress" => call.val = One

ProgressQueriedAfterCompletion ==
    /\ variant = "progress"
    /\ call.op = "get_normalized_progress"
    /\ call.item \in seenCompleted
    /\ Elapsed(call.item) > dur[call.item]

InUnit(p) == Leq(Zero, p) /\ Leq(p, One)

\* C4: the values successive progress queries return for an item started
\* once, with a positive duration, lie in [0, 1] and never decrease.
ProgressNeverRegresses ==
    [][\A i \in DOMAIN lastProgress' :
          /\ InUnit(lastProgress'[i])
          /\ i \in DOMAIN lastProgress =>
                Leq(lastProgress[i], lastProgress'[i])]_vars

ProgressGrewThenStayed ==
    /\ 1 \in DOMAIN lastProgress
    /\ lastProgress[1] = One
    /\ call.op = "get_normalized_progress"
    /\ is_finished[1]
    /\ dur[1] >= 2
    /\ clock > start_time[1] + dur[1]

\* C5: a run over an empty collection goes to FINISHED without raising.
EmptyRunFinishes ==
    Len(dur) = 0 => pc # "raised"

\* C6: a run over a non-empty collection enters FINISHED only after a pass
\* through HEADER_DRAWN: a header has been rendered before the final one,
\* also when every item was completed at the first active subset.
OnePassBeforeFinished ==
    (pc = "final_header" /\ Len(dur) >= 1) => header # <<>>

\* C7: the text between the header bar's square brackets is 30 characters
\* long for every total >= 1 and every completed count up to it.
HeaderBarFixedWidth ==
    pc = "hdr_done" =>
        Len(header.bar) = MAX_NUMBER_CHARACTERS_HEADER_PROGRESS_BAR

OnlySinkWritten ==
    text_io = "sink" => "stdout" \notin streams

\* C10: in every frame the item lines are in descending order of the
\* progress each line reports when it is written.
FrameLinesDescending ==
    \A a, b \in DOMAIN rendered :
        a < b => Leq(rendered[b].progress, rendered[a].progress)

IsPrefix(a, b) == Len(a) <= Len(b) /\ \A k \in DOMAIN a : a[k] = b[k]

\* C11: in one run, start_progress is called on every item exactly once, in
\* collection order (the calls so far are a prefix of the collection), and
\* once any item has been queried every item has been started.
StartedOnceInOrderBeforeQueries ==
    /\ IsPrefix(startLog, progress_items)
    /\ queried => startLog = progress_items
    /\ pc = "done" => startLog = progress_items

\* two items were started and an item has been queried
TwoStartedThenQueried ==
    /\ variant = "progress"
    /\ Len(startLog) >= 2
    /\ queried

\* the erasure of a frame has just been written
FrameErased ==
    /\ pc = "inner"
    /\ Len(emitted) >= 3
    /\ emitted[Len(emitted)].seq = "erase"

HasRow(t, what) == \E r \in DOMAIN t.rows : t.rows[r] = what

\* C12: after the erasure of a frame no stream shows an item line any more,
\* the header is untouched and the cursor is on the row just below it.
FrameErasureExact ==
    FrameErased =>
        /\ \A s \in Streams : ~HasRow(screen[s], "item")
        /\ screen[text_io].cur >= 2
        /\ RowAt(screen[text_io], screen[text_io].cur - 1) = "header"

(***************************************************************************)
(* One item line apart from run, for every progress k / 10000 below 1:     *)
(* the item was started at 0 and is expected to take PercentUnits ticks.   *)
(***************************************************************************)
PercentUnits == 100 * 100

InitFormat ==
    /\ dur = <<PercentUnits>>
    /\ variant \in {"progress", "main"}
    /\ clock \in 0..(PercentUnits - 1)
    /\ start_time = <<0>>
    /\ is_finished = <<FALSE>>
    /\ pc = "line"
    /\ header = <<>>
    /\ RunIdle
    /\ HarnessIdle

\* pretty_print_progress (src/main.py: print_updates) of the item
PrintLine ==
    /\ pc = "line"
    /\ spinner' = (spinner + 1) % SpinnerLength
    /\ IF ItemCompleted(1)
       THEN /\ rendered' = <<DoneLine(1)>>
            /\ UNCHANGED is_finished
       ELSE /\ rendered' = <<PercentLine(1, ItemProgress(1))>>
            /\ is_finished' = Latched(1)
    /\ pc' = "line_done"
    /\ UNCHANGED <<inputVars, clock, start_time, header, text_io, drift, idx,
                   acc, incomplete, update_time, keys, order, streams,
                   lastLine, nCompleted, termVars, cursorVars, logVars,
                   harnessVars>>

NextFormat == PrintLine

SpecFormat == InitFormat /\ [][NextFormat]_vars

\* C13: the line of a not-completed item with progress below 1 shows the
\* percentage with two decimals and two integer digits ("04.29 %"): five
\* characters with the point in third place, then " %".
PercentTwoIntegerDigits ==
    \A k \in DOMAIN rendered :
        (~rendered[k].done /\ ~Leq(One, rendered[k].progress)) =>
            /\ Len(rendered[k].text) = 7
            /\ rendered[k].text[3] = "."

\* the positions of run after its loop, and the position it raised in
AfterLoop == {"final_header", "final", "final_erased", "done", "raised"}

\* the loop condition has failed on the subset inc, or run is past the loop
LoopOver(at, inc) == (at = "outer" /\ inc = <<>>) \/ at \in AfterLoop

\* the writes after the loop: the header, its erasure, Completed and the
\* cursor's return
FinishedWrite(w) ==
    \/ w.seq = "line" /\ w.what = "header"
    \/ w.seq \in {"erase", "up", "show"}
    \/ w.seq = "text" /\ w.what = "Completed"

\* C14: the active subset is always a part of the fixed collection, in the
\* collection's order, and the collection never changes; once a recomputed
\* active subset is empty run stays after its loop, starts no redraw cycle
\* and writes nothing but the final header, its erasure and Completed.
ActiveSubsetWithinItemsThenFinished ==
    /\ [](/\ \A k \in DOMAIN incomplete : incomplete[k] \in Items
          /\ \A j, k \in DOMAIN incomplete :
                j < k => incomplete[j] < incomplete[k])
    /\ [][/\ dur' = dur
          /\ LoopOver(pc, incomplete) =>
                /\ LoopOver(pc', incomplete')
                /\ incomplete' = <<>>
                /\ nHide' = nHide
                /\ rendered' = rendered
                /\ emitted' # emitted =>
                      \A k \in DOMAIN emitted' : FinishedWrite(emitted'[k])
         ]_vars

\* the loop was left after a redraw cycle of two items
LoopLeftAfterCycle ==
    /\ pc = "final_header"
    /\ incomplete = <<>>
    /\ nHide >= 1
    /\ Len(dur) >= 2

Range(s) == {s[k] : k \in DOMAIN s}

\* C15: the active subset is assigned only when it is recomputed; a frame
\* that has been drawn has one line for each item of the subset, and an item
\* of the subset that is completed when its line is due gets the Done line.
SubsetFixedWithinCycle ==
    /\ [](pc \in {"sleep", "erase"} =>
            /\ Len(rendered) = Len(incomplete)
            /\ {rendered[k].item : k \in DOMAIN rendered} = Range(incomplete)
            /\ \A k \in DOMAIN rendered :
                  rendered[k].done => is_completed(rendered[k].item))
    /\ [][/\ incomplete' # incomplete => pc \in {"filter0", "filter"}
          /\ (pc = "render" /\ pc' # pc /\ is_completed(order[idx])) =>
                rendered' = Append(rendered, DoneLine(order[idx]))
         ]_vars

\* a frame of two lines, one of them the Done line of an item that is still
\* in the active subset
DoneLineWithinCycle ==
    /\ pc = "sleep"
    /\ Len(rendered) = 2
    /\ \E k \in DOMAIN rendered :
          rendered[k].done /\ rendered[k].item \in Range(incomplete)
    /\ \E k \in DOMAIN rendered : ~rendered[k].done

\* the final header has been written: run is past its loop and has not raised
FinalHeaderWritten == pc \in {"final", "final_erased", "done"}

\* C16: the final header shows total / total and a bar of 30 filled
\* characters; when Completed is written no stream shows a header any more.
FinalHeaderFullThenErased ==
    /\ FinalHeaderWritten =>
          /\ header.counts = <<Len(dur), Len(dur)>>
          /\ header.n_filled = MAX_NUMBER_CHARACTERS_HEADER_PROGRESS_BAR
          /\ header.n_left = 0
    /\ pc \in {"final_erased", "done"} =>
          \A s \in Streams : ~HasRow(screen[s], "header")

\* a cycle has ended and the next header has not been written yet
CycleBoundary ==
    /\ pc \in {"outer", "header", "final_header"}
    /\ header # <<>>

\* C17: at a cycle boundary the row of the old header is blank and the
\* cursor of the header's stream is on it: that stream shows no header.
OldHeaderErasedAtBoundary ==
    CycleBoundary =>
        /\ RowAt(screen[text_io], screen[text_io].cur) = "blank"
        /\ ~HasRow(screen[text_io], "header")

\* the positions where the last header written heads the active subset: from
\* the header's write to the next recomputation, and after the final header
HeaderHeadsSubset ==
    pc \in {"inner", "sortkeys", "render", "percent", "sleep", "erase",
            "filter", "final", "final_erased", "done"}

\* C18 as stated: the completed count of the header plus the size of the
\* active subset is the total number of items.
HeaderCountPlusActiveIsTotal ==
    HeaderHeadsSubset => header.counts[1] + Len(incomplete) = Len(dur)

\* C18, amended: the count plus the size of the active subset is at least
\* the total, and exceeds it by no more than the number of items of the
\* active subset that are completed.
HeaderCountWithinActiveSubset ==
    HeaderHeadsSubset =>
        /\ header.counts[2] = Len(dur)
        /\ Len(dur) <= header.counts[1] + Len(incomplete)
        /\ header.counts[1] + Len(incomplete) <=
              Len(dur) + Cardinality({k \in DOMAIN incomplete :
                                         is_completed(incomplete[k])})

\* a header counts an item that is in the active subset it heads
HeaderCountsActiveItem ==
    /\ pc = "inner"
    /\ header.counts[1] + Len(incomplete) > Len(dur)
    /\ Len(dur) >= 2

\* C19: for a started item, is_completed() holds exactly when
\* get_normalized_progress() called at the same instant returns 1.0.
CompletedIffProgressOne ==
    pc = "item" =>
        \A i \in DOMAIN start_time : ItemCompleted(i) <=> ItemProgress(i) = One

\* C20: ANSI_HIDE_CURSOR is written only when a redraw cycle starts;
\* ANSI_SHOW_CURSOR is written once, as the last write of run, which has
\* returned exactly when it is written; nothing is written after it, and a
\* run that has returned leaves the cursor of no stream hidden.
CursorShownOnReturn ==
    /\ [](/\ nShow = (IF pc = "done" THEN 1 ELSE 0)
          /\ CountOf(emitted, "show") = nShow
          /\ pc = "done" =>
                /\ emitted[Len(emitted)] = ANSI_SHOW_CURSOR(text_io)
                /\ \A s \in Streams : ~screen[s].hidden
          /\ CountOf(emitted, "hide") > 0 =>
                (emitted = <<ANSI_HIDE_CURSOR(text_io)>> /\ nHide > 0))
    /\ [][/\ nHide' # nHide =>
                /\ pc = "outer"
                /\ incomplete # <<>>
                /\ pc' = "header"
                /\ nHide' = nHide + 1
                /\ emitted' = <<ANSI_HIDE_CURSOR(text_io)>>
          /\ pc = "done" => (emitted' = emitted /\ screen' = screen)
         ]_vars

\* run returned after two redraw cycles, each of which hid the cursor
ReturnedAfterTwoHides ==
    /\ pc = "done"
    /\ nHide >= 2
    /\ nShow = 1

====
